---- MODULE Spec2Model ----
(***************************************************************************)
(* SFTP batch uploader (sftp_gui.py): the upload worker thread             *)
(* (UploadWorker.run / _sleep / _connect) and the Tk observer that starts  *)
(* it, stops it, polls its queues and answers its checkpoint (App._start,  *)
(* App._stop, App._poll, App._ask_continue).                               *)
(*                                                                         *)
(* The worker and the observer are two threads.  They share the stop flag  *)
(* and three FIFO queues (log_q, confirm_q, reply_q); every action below   *)
(* is one step of one of the two threads.  The remote session (paramiko)   *)
(* and the local file system are the environment: each call to them has a  *)
(* nondeterministic outcome.                                               *)
(***************************************************************************)
EXTENDS Integers, Sequences, FiniteSets

\* ------------------------------------------------------------------ bounds
\* Longest file list of a request.
MaxFiles == 5
\* Longest file list of a request that has a start delay or waits between
\* files.
MaxTimedFiles == 2
\* Largest "test batch" size (cfg["test_n"]) of a request.
MaxTestN == 2
\* Largest short inter-file delay, in seconds.
MaxDelay == 2
\* Largest start delay, in minutes.
MaxStartMin == 1
\* Environment failures (missing file, dropped session, failed connect,
\* failed query, failed upload) in one run; the reconnect that follows a
\* dropped session may fail as well.
MaxFaults == 1
\* Clicks on Stop during one run.
MaxStops == 1
\* Clicks on Stop during a run of a worker that is given its request directly.
MaxRunStops == 2
\* Environment failures in such a run.
MaxRunFaults == 1
\* Runs started one after another.
MaxRuns == 2
\* Longest file list of a request with a field that is no numeral.
MaxBadFiles == 1

\* --------------------------------------------------------- program constants
\* run(): RECONNECT_THRESH = 55
RECONNECT_THRESH == 55
\* run(): start_delay = int(cfg.get("start_delay_min", 0)) * 60
SecondsPerMinute == 60

VARIABLES
    \* ---- the request
    cfg,            \* self.cfg: use_delay, delay, use_test, test_n
    total,          \* len(files)
    \* ---- the locals of run() bound from cfg (0 until then)
    start_delay,    \* seconds to wait before connecting
    delay,          \* seconds between files (0: none)
    test_count,     \* checkpoint after this many files (0: none)
    \* ---- UploadWorker
    pc,             \* where run() is
    idx,            \* the file loop's index, 1..total
    stop,           \* self._stop (threading.Event)
    sl,             \* the frame of _sleep: seconds, elapsed, prefix, total, caller
    transport,      \* the handle run() holds in (transport, sftp); 0: unbound
    opened,         \* handles _connect has returned so far: 1..opened
    closed,         \* the handles close() has been called on
    \* ---- the queues shared by the two threads
    log_q, confirm_q, reply_q,
    \* ---- App
    gui,            \* where the Tk thread is: ready, polled, dialog, stopping
    worker,         \* self._worker is not None
    start_btn, stop_btn,    \* the buttons are enabled
    timer_lbl,      \* the text of the countdown label
    \* ---- bounds of the exploration
    runsLeft,       \* runs that may still be started
    stopsLeft,      \* clicks on Stop left in this run
    faults,         \* environment failures left in this run
    \* ---- history of the current run (read by the properties only)
    h

req    == <<cfg, total, start_delay, delay, test_count>>
wvars  == <<pc, idx, sl, transport, opened, closed>>
qvars  == <<log_q, confirm_q, reply_q>>
avars  == <<gui, worker, start_btn, stop_btn, timer_lbl>>
bvars  == <<runsLeft, stopsLeft, faults>>
vars   == <<req, wvars, stop, qvars, avars, bvars, h>>

\* ---------------------------------------------------------------- requests
\* The text of a form field: the numeral of n, or a text that int() rejects
\* ("abc", "1.5").
Numeral(n) == [numeral |-> TRUE, value |-> n]
Letters    == [numeral |-> FALSE, value |-> 0]

\* int(text) raises ValueError / returns the number.
IntRaises(text) == ~text.numeral
IntOf(text)     == text.value

\* A request: the number of files and the dict of App._get_cfg.  With t the
\* test batch size and d the delay the user wants (0: the switch is off):
\* "delay" is the field or "0", "test_n" is the field or "1".  The start
\* delay m has passed int() in App._start (line 648).
Request(n, t, d, m) ==
    [ n |-> n, start_delay_min |-> m,
      use_test |-> t # 0, test_n |-> Numeral(IF t = 0 THEN 1 ELSE t),
      use_delay |-> d # 0, delay |-> Numeral(d) ]

\* Plain requests start at once and do not wait between files.
PlainRequests ==
    { Request(n, t, 0, 0) : n \in 0..MaxFiles, t \in 0..MaxTestN }

\* Requests that wait a short time between files.
DelayedRequests ==
    { Request(n, t, d, 0) : n \in 0..MaxTimedFiles, t \in 0..1,
                            d \in 1..MaxDelay }

\* Requests that wait RECONNECT_THRESH seconds between files, with or without
\* a checkpoint after the first file.
LongRequests ==
    { Request(n, t, RECONNECT_THRESH, 0) : n \in 0..MaxTimedFiles, t \in 0..1 }

\* Requests with a start delay.
ScheduledRequests ==
    { Request(n, 0, 0, m) : n \in 0..MaxTimedFiles, m \in 1..MaxStartMin }

\* Requests whose delay and test_n fields hold a text that is no numeral,
\* with either switch on or off, the empty file list included: UploadWorker
\* takes cfg and files as they are given (lines 25-27), and run() reads the
\* fields at lines 104-105 whatever the list holds.  App._start refuses the
\* empty list (lines 637-640; StartRun requires a file), so those reach run()
\* in a worker that is constructed directly.
MalformedRequests ==
    [ n : 0..MaxBadFiles, start_delay_min : {0},
      use_test : BOOLEAN, test_n : {Letters},
      use_delay : BOOLEAN, delay : {Letters} ]

Requests ==
    PlainRequests \cup DelayedRequests \cup LongRequests
        \cup ScheduledRequests \cup MalformedRequests

\* The requests without any countdown.
BatchRequests == PlainRequests \cup MalformedRequests

\* The requests given to a worker that is constructed directly.
RunRequests ==
    { Request(n, t, 0, 0) : n \in 0..MaxTimedFiles, t \in 0..MaxTestN }
        \cup MalformedRequests

\* The requests of the runs that follow one another: a few files, with or
\* without a checkpoint after the first.
ShortRequests ==
    { Request(n, t, 0, 0) : n \in 0..MaxTimedFiles, t \in 0..1 }

\* self.cfg of the worker made for request r.
CfgOf(r) ==
    [ use_test |-> r.use_test, test_n |-> r.test_n,
      use_delay |-> r.use_delay, delay |-> r.delay ]

\* No request yet.
NoCfg == CfgOf(Request(0, 0, 0, 0))

\* --------------------------------------------------------------- the events
\* _timer(""): no countdown.
NoText == <<>>

\* _sleep's f"{timer_prefix}  {mins:02d}m {secs:02d}s{suffix}"
TimerText(prefix, remaining, tot) ==
    <<prefix, remaining \div 60, remaining % 60, tot>>

\* The seconds a timer text shows.
TextSeconds(text) == text[2] * 60 + text[3]

LogEv(tag, i)  == <<"log", tag, i>>
TimerEv(text)  == <<"timer", text>>
DoneEv(b)      == <<"done", b>>

\* ------------------------------------------------------------------ history
NoHistory ==
    [ dones    |-> 0,       \* RunFinished events put
      doneVal  |-> TRUE,    \* the value of the last one
      late     |-> 0,       \* events put after a RunFinished
      connects |-> 0,       \* calls of _connect
      uploads  |-> 0,       \* calls of sftp.put
      skips    |-> 0,       \* files skipped because they do not exist
      lastUp   |-> 0,       \* the index of the last upload attempt
      ordered  |-> TRUE,    \* every upload attempt had a higher index than the one before
      ticks    |-> 0,       \* countdown ticks put
      confirms |-> 0,       \* ConfirmationRequested put
      askAfter |-> <<"none", 0>>,  \* the worker's last act before it asked
      last     |-> <<"none", 0>>,  \* the worker's last act and its index
      decision |-> "none",  \* what reply_q.get() returned: none, yes, no
      sinceAsk |-> 0,       \* worker acts since confirm_q.put, before the reply
      sinceNo  |-> 0,       \* uploads and ticks since a "no"
      stopAt   |-> "none",  \* where run() was when the flag was set
      upStop   |-> 0,       \* uploads started since the flag was set
      tickStop |-> 0,       \* ticks put since the flag was set
      synth    |-> FALSE,   \* _stop queued its False before any dialog answer
      answers  |-> 0,       \* dialog answers queued
      stopCalls |-> 0,      \* calls of App._stop
      fileEv   |-> FALSE,   \* the file loop has put an event or handled a file
      connFailLogs |-> 0,   \* "Connection failed" logs put
      cur      |-> {},      \* what the current pass of the file loop has done
      broke    |-> "none",  \* why the file loop was left by a break
      lost     |-> 0,       \* sessions found inactive before an upload
      reconnOk |-> 0,       \* reconnects before an upload that succeeded
      reconnFail |-> 0,     \* ... that failed
      upAtFail |-> 0,       \* upload attempts made when one failed
      errors   |-> 0,       \* uploads that raised
      lastTimer |-> "none", \* the last timer event put: none, tick, clear
      dlyStopped |-> FALSE, \* an inter-file countdown was entered with the flag set
      slTicks  |-> 0,       \* ticks put by the current call of _sleep
      slOk     |-> TRUE,    \* its k-th tick carried seconds - (k - 1), for all k
      slSaw    |-> FALSE,   \* one of its checks found the flag set
      slRet    |-> "none",  \* what it returned: none, true, false
      reply1   |-> <<>>,    \* reply_q as it would be had _stop run once only
      stale    |-> 0 ]      \* replies and a set flag the run before left behind

\* The history hh after the worker's act `kind` (at loop index i).
Rec2(hh, kind, i) ==
    LET isEv  == kind \in {"log", "tick", "clear", "done", "confirm"}
        isAct == kind \in {"log", "tick", "clear", "alive", "connect",
                           "upload", "skip", "advance"}
        asked == hh.confirms > 0 /\ hh.decision = "none"
    IN  [ hh EXCEPT
            !.late     = @ + (IF isEv /\ kind # "confirm" /\ hh.dones > 0 THEN 1 ELSE 0),
            !.dones    = @ + (IF kind = "done" THEN 1 ELSE 0),
            !.connects = @ + (IF kind = "connect" THEN 1 ELSE 0),
            !.uploads  = @ + (IF kind = "upload" THEN 1 ELSE 0),
            !.skips    = @ + (IF kind = "skip" THEN 1 ELSE 0),
            !.lastUp   = IF kind = "upload" THEN i ELSE @,
            !.lastTimer = IF kind \in {"tick", "clear"} THEN kind ELSE @,
            !.ordered  = @ /\ (kind = "upload" => i > hh.lastUp),
            !.ticks    = @ + (IF kind = "tick" THEN 1 ELSE 0),
            !.confirms = @ + (IF kind = "confirm" THEN 1 ELSE 0),
            !.askAfter = IF kind = "confirm" THEN hh.last ELSE @,
            !.last     = IF kind \in {"log", "clear", "done", "close"} THEN @
                         ELSE <<kind, i>>,
            !.sinceAsk = @ + (IF asked /\ isAct THEN 1 ELSE 0),
            !.sinceNo  = @ + (IF hh.decision = "no" /\ kind \in {"upload", "tick"}
                              THEN 1 ELSE 0),
            !.cur      = IF i >= 1 /\ kind \in {"skip", "alive", "connect",
                                                   "upload", "confirm", "tick"}
                         THEN @ \cup {kind} ELSE @,
            !.fileEv   = @ \/ (i >= 1 /\ (isEv \/ isAct) /\ kind # "done"),
            !.upStop   = @ + (IF stop /\ kind = "upload" THEN 1 ELSE 0),
            !.tickStop = @ + (IF stop /\ kind = "tick" THEN 1 ELSE 0) ]

Rec(kind, i) == Rec2(h, kind, i)

\* The history hh at the entry of _sleep.
SleepEntered(hh) ==
    [hh EXCEPT !.slTicks = 0, !.slOk = TRUE, !.slSaw = FALSE, !.slRet = "none"]

\* The history hh with the mark m on the current pass of the file loop.
Mark(hh, m) == [hh EXCEPT !.cur = @ \cup {m}]

\* The history hh with the current pass marked m in place of what hh marked:
\* for the session check and the reconnect that follow a long delay.
MarkLong(hh, m) == [hh EXCEPT !.cur = h.cur \cup {m}]

\* ---------------------------------------------------------------- App.__init__
Init ==
    /\ cfg = NoCfg /\ total = 0
    /\ start_delay = 0 /\ delay = 0 /\ test_count = 0
    /\ pc = "none" /\ idx = 0 /\ stop = FALSE
    /\ sl = [seconds |-> 0, elapsed |-> 0, prefix |-> "", total |-> 0, caller |-> ""]
    /\ transport = 0 /\ opened = 0 /\ closed = {}
    /\ log_q = <<>> /\ confirm_q = <<>> /\ reply_q = <<>>
    /\ gui = "ready" /\ worker = FALSE
    /\ start_btn = TRUE /\ stop_btn = FALSE
    /\ timer_lbl = NoText
    /\ runsLeft = 1 /\ stopsLeft = 0 /\ faults = 0
    /\ h = NoHistory


\* ------------------------------------------------------------- the observer
\* Where run() is, for the history: before the countdown, within the seconds
\* of the pre-start wait, past them, connecting, in the file loop, tearing
\* down, returned, or ended by an exception.
StartPcs   == {"start_cancel_log", "start_cancel_done", "start_clear"}
ConnectPcs == {"connect", "connecting", "normalize", "conn_failed_log",
               "conn_failed_done"}
Phase ==
    IF pc = "none" THEN "none"
    ELSE IF pc = "run" THEN "prestart"
    ELSE IF sl.caller = "start" /\ pc \in {"sleep_tick", "sleep_wait"} THEN "wait"
    ELSE IF sl.caller = "start" /\ pc = "sleep_chk"
         THEN (IF sl.elapsed < sl.seconds THEN "wait" ELSE "afterwait")
    ELSE IF pc \in StartPcs THEN "afterwait"
    ELSE IF pc \in ConnectPcs THEN "connect"
    ELSE IF pc \in {"teardown", "done_put"} THEN "teardown"
    ELSE IF pc = "finished" THEN "finished"
    ELSE IF pc = "died" THEN "died"
    ELSE "loop"

\* run(): start_delay = int(cfg.get("start_delay_min", 0)) * 60
StartDelaySeconds(minutes) == minutes * SecondsPerMinute

\* App._start: needs a non-empty file list; makes three fresh queues and a new
\* worker, starts its thread, disables Start and enables Stop.
StartRunKeepsReplies(R, f) ==
    /\ gui = "ready" /\ start_btn /\ runsLeft > 0
    /\ \E r \in R :
        /\ r.n >= 1
        /\ cfg' = CfgOf(r)
        /\ total' = r.n
        /\ start_delay' = StartDelaySeconds(r.start_delay_min)
        /\ delay' = 0 /\ test_count' = 0
    /\ log_q' = <<>> /\ confirm_q' = <<>>
    /\ worker' = TRUE
    /\ pc' = "run" /\ idx' = 0
    /\ transport' = 0 /\ opened' = 0 /\ closed' = {}
    /\ start_btn' = FALSE /\ stop_btn' = TRUE
    /\ runsLeft' = runsLeft - 1 /\ stopsLeft' = MaxStops /\ faults' = f
    /\ h' = [NoHistory EXCEPT !.stale = Len(reply_q) + (IF stop THEN 1 ELSE 0)]
    /\ UNCHANGED <<sl, gui, timer_lbl, reply_q, stop>>

\* App._start past its early returns, for a request of R and a run in which
\* the network fails at most f times: the three queues are emptied and
\* replaced by new ones (661-669), a new UploadWorker, whose flag is a new
\* unset Event (line 28), is started on them (671-674), and the buttons
\* change over (676-677).
StartRun(R, f) ==
    /\ gui = "ready" /\ start_btn /\ runsLeft > 0
    /\ \E r \in R :
        /\ r.n >= 1
        /\ cfg' = CfgOf(r)
        /\ total' = r.n
        /\ start_delay' = StartDelaySeconds(r.start_delay_min)
        /\ delay' = 0 /\ test_count' = 0
    /\ log_q' = <<>> /\ confirm_q' = <<>> /\ reply_q' = <<>>
    /\ worker' = TRUE /\ stop' = FALSE
    /\ pc' = "run" /\ idx' = 0
    /\ transport' = 0 /\ opened' = 0 /\ closed' = {}
    /\ start_btn' = FALSE /\ stop_btn' = TRUE
    /\ runsLeft' = runsLeft - 1 /\ stopsLeft' = MaxStops /\ faults' = f
    /\ h' = [NoHistory EXCEPT !.stale = Len(reply_q) + (IF stop THEN 1 ELSE 0)]
    /\ UNCHANGED <<sl, gui, timer_lbl>>

AppStart == StartRun(Requests, MaxFaults)

\* A stop() that flips the flag instead of setting it.
StopSetToggles ==
    /\ gui = "ready" /\ stop_btn /\ worker /\ stopsLeft > 0
    /\ stop' = ~stop
    /\ gui' = "stopping"
    /\ stopsLeft' = stopsLeft - 1
    /\ h' = [h EXCEPT !.stopAt = IF stop THEN @ ELSE Phase,
                      !.stopCalls = @ + 1]
    /\ UNCHANGED <<req, wvars, qvars, worker, start_btn, stop_btn, timer_lbl,
                   runsLeft, faults>>

\* App._stop, first statement: self._worker.stop() sets the flag.
StopSet ==
    /\ gui = "ready" /\ stop_btn /\ worker /\ stopsLeft > 0
    /\ stop' = TRUE
    /\ gui' = "stopping"
    /\ stopsLeft' = stopsLeft - 1
    /\ h' = [h EXCEPT !.stopAt = IF stop THEN @ ELSE Phase,
                      !.stopCalls = @ + 1]
    /\ UNCHANGED <<req, wvars, qvars, worker, start_btn, stop_btn, timer_lbl,
                   runsLeft, faults>>

\* A _stop that sets the flag and queues nothing for the waiting worker.
StopWithoutReply ==
    /\ gui = "stopping"
    /\ gui' = "ready"
    /\ h' = [h EXCEPT !.synth = @ \/ (h.answers = 0 /\ h.decision = "none")]
    /\ UNCHANGED <<req, wvars, stop, qvars, worker, start_btn, stop_btn,
                   timer_lbl, bvars>>

\* App._stop, second statement: self._reply_q.put_nowait(False).
StopReply ==
    /\ gui = "stopping"
    /\ reply_q' = Append(reply_q, FALSE)
    /\ gui' = "ready"
    /\ h' = [h EXCEPT !.synth = @ \/ (h.answers = 0 /\ h.decision = "none"),
                      !.reply1 = IF h.stopCalls = 1 THEN Append(@, FALSE) ELSE @]
    /\ UNCHANGED <<req, wvars, stop, log_q, confirm_q, worker, start_btn, stop_btn,
                   timer_lbl, bvars>>

\* timer_text = None
NoneText == <<"None">>

\* The loop of App._poll over the events it takes from log_q: a log is shown,
\* a timer is remembered (the last one wins), a done clears the label and
\* flips the buttons.  st: the label, the buttons and timer_text.
RECURSIVE PollLoop(_, _)
PollLoop(q, st) ==
    IF q = <<>> THEN st
    ELSE LET e == Head(q)
         IN  PollLoop(Tail(q),
                CASE e[1] = "log"   -> st
                  [] e[1] = "timer" -> [st EXCEPT !.timer_text = e[2]]
                  [] e[1] = "done"  -> [st EXCEPT !.lbl = NoText,
                                                  !.start_btn = TRUE,
                                                  !.stop_btn = FALSE])

\* After the loop: if timer_text is not None, the label shows it.
PollLabel(st) == IF st.timer_text # NoneText THEN st.timer_text ELSE st.lbl

\* App._poll, first half: drain log_q.
PollDrain ==
    /\ gui = "ready"
    /\ LET st == PollLoop(log_q, [lbl |-> timer_lbl, start_btn |-> start_btn,
                                  stop_btn |-> stop_btn, timer_text |-> NoneText])
       IN  /\ timer_lbl' = PollLabel(st)
           /\ start_btn' = st.start_btn
           /\ stop_btn' = st.stop_btn
    /\ log_q' = <<>>
    /\ gui' = "polled"
    /\ UNCHANGED <<req, wvars, stop, confirm_q, reply_q, worker, bvars, h>>

\* App._poll, second half: take a confirmation request, if there is one, and
\* open the dialog; then schedule the next poll.
PollConfirm ==
    /\ gui = "polled"
    /\ IF confirm_q # <<>>
       THEN /\ confirm_q' = Tail(confirm_q)
            /\ gui' = "dialog"
       ELSE /\ gui' = "ready"
            /\ UNCHANGED confirm_q
    /\ UNCHANGED <<req, wvars, stop, log_q, reply_q, worker, start_btn, stop_btn,
                   timer_lbl, bvars, h>>

\* App._ask_continue: the modal dialog returns the user's answer, which goes
\* to reply_q.
AskContinue ==
    /\ gui = "dialog"
    /\ \E answer \in BOOLEAN :
        /\ reply_q' = Append(reply_q, answer)
        /\ h' = [h EXCEPT !.answers = @ + 1, !.reply1 = Append(@, answer)]
    /\ gui' = "ready"
    /\ UNCHANGED <<req, wvars, stop, log_q, confirm_q, worker, start_btn, stop_btn,
                   timer_lbl, bvars>>

\* ----------------------------------------------------------------- _sleep
\* A _sleep that never looks at the flag.
SleepOutcomeNoCancel(seconds, elapsed, stopped) ==
    IF elapsed >= seconds THEN "end" ELSE "tick"

\* One pass of `for elapsed in range(seconds)`: the loop is over, or the flag
\* is set, or a second is counted down.
SleepOutcome(seconds, elapsed, stopped) ==
    IF elapsed >= seconds THEN "end"
    ELSE IF stopped THEN "cancel"
    ELSE "tick"

\* Where run() continues when _sleep returns False / True.
SleepFalse(caller) == IF caller = "start" THEN "start_cancel_log" ELSE "teardown"
SleepTrue(caller)  == IF caller = "start" THEN "start_clear" ELSE "delay_clear"

\* _sleep, the head of the loop and what follows it: return False when the
\* flag is set; after the last second put the empty timer and return True.
SleepCheck ==
    /\ pc = "sleep_chk"
    /\ LET o == SleepOutcome(sl.seconds, sl.elapsed, stop)
           saw == sl.elapsed < sl.seconds /\ stop
       IN  \/ /\ o = "cancel"
              /\ pc' = SleepFalse(sl.caller)
              /\ h' = [h EXCEPT !.broke = IF sl.caller = "delay" THEN "sleep"
                                          ELSE @,
                                !.slSaw = @ \/ saw, !.slRet = "false"]
              /\ UNCHANGED log_q
           \/ /\ o = "tick"
              /\ pc' = "sleep_tick"
              /\ h' = [h EXCEPT !.slSaw = @ \/ saw]
              /\ UNCHANGED log_q
           \/ /\ o = "end"
              /\ log_q' = Append(log_q, TimerEv(NoText))
              /\ pc' = SleepTrue(sl.caller)
              /\ h' = [Rec("clear", idx) EXCEPT !.slSaw = @ \/ saw,
                                                !.slRet = "true"]
    /\ UNCHANGED <<req, idx, sl, transport, opened, closed, stop, confirm_q, reply_q,
                   avars, bvars>>

\* A countdown that shows the seconds passed.
RemainingCountsUp(seconds, elapsed) == elapsed + 1

\* _sleep: remaining = seconds - elapsed
Remaining(seconds, elapsed) == seconds - elapsed

\* _sleep, the body of the loop: put the countdown.
SleepTick ==
    /\ pc = "sleep_tick"
    /\ LET text == TimerText(sl.prefix, Remaining(sl.seconds, sl.elapsed), sl.total)
       IN  /\ log_q' = Append(log_q, TimerEv(text))
           /\ h' = [Rec("tick", idx) EXCEPT
                       !.slTicks = @ + 1,
                       !.slOk = @ /\ TextSeconds(text) = sl.seconds - h.slTicks]
    /\ pc' = "sleep_wait"
    /\ UNCHANGED <<req, idx, sl, transport, opened, closed, stop, confirm_q, reply_q,
                   avars, bvars>>

\* _sleep, threading.Event().wait(1): the second passes, the loop goes on.
SleepWait ==
    /\ pc = "sleep_wait"
    /\ sl' = [sl EXCEPT !.elapsed = @ + 1]
    /\ pc' = "sleep_chk"
    /\ UNCHANGED <<req, idx, transport, opened, closed, stop, qvars, avars, bvars, h>>

\* ------------------------------------------------------- run: initial delay
\* run(), lines 76-86: with a start delay, log the schedule and enter _sleep.
RunBegin ==
    /\ pc = "run"
    /\ IF start_delay > 0
       THEN /\ log_q' = Append(log_q, LogEv("scheduled", 0))
            /\ sl' = [seconds |-> start_delay, elapsed |-> 0, prefix |-> "start",
                      total |-> 0, caller |-> "start"]
            /\ pc' = "sleep_chk"
            /\ h' = SleepEntered(Rec("log", 0))
       ELSE /\ pc' = "connect"
            /\ UNCHANGED <<log_q, sl, h>>
    /\ UNCHANGED <<req, idx, transport, opened, closed, stop, confirm_q, reply_q,
                   avars, bvars>>

\* run(), line 87: the wait was cancelled.
StartCancelLog ==
    /\ pc = "start_cancel_log"
    /\ log_q' = Append(log_q, LogEv("stopped_initial", 0))
    /\ pc' = "start_cancel_done"
    /\ h' = Rec("log", 0)
    /\ UNCHANGED <<req, idx, sl, transport, opened, closed, stop, confirm_q, reply_q,
                   avars, bvars>>

\* run(), lines 88-89: put ("done", False) and return.
StartCancelDone ==
    /\ pc = "start_cancel_done"
    /\ log_q' = Append(log_q, DoneEv(FALSE))
    /\ pc' = "finished"
    /\ h' = [Rec("done", 0) EXCEPT !.doneVal = FALSE]
    /\ UNCHANGED <<req, idx, sl, transport, opened, closed, stop, confirm_q, reply_q,
                   avars, bvars>>

\* run(), line 90: the wait ran out; clear the countdown.
StartClear ==
    /\ pc = "start_clear"
    /\ log_q' = Append(log_q, TimerEv(NoText))
    /\ pc' = "connect"
    /\ h' = Rec("clear", 0)
    /\ UNCHANGED <<req, idx, sl, transport, opened, closed, stop, confirm_q, reply_q,
                   avars, bvars>>

\* ------------------------------------------------------------ run: connect
\* The outcomes of a call that may fail: it fails only while the run has
\* failures left to explore.
Outcomes == IF faults > 0 THEN {"ok", "fail"} ELSE {"ok"}

\* run(), line 94: the "Connecting" log.
ConnectLog ==
    /\ pc = "connect"
    /\ log_q' = Append(log_q, LogEv("connecting", 0))
    /\ pc' = "connecting"
    /\ h' = Rec("log", 0)
    /\ UNCHANGED <<req, idx, sl, transport, opened, closed, stop, confirm_q, reply_q,
                   avars, bvars>>

\* run(), line 95: _connect(): a new handle, or an exception.
Connect ==
    /\ pc = "connecting"
    /\ \E o \in Outcomes :
        \/ /\ o = "ok"
           /\ opened' = opened + 1
           /\ transport' = opened + 1
           /\ pc' = "normalize"
           /\ UNCHANGED faults
        \/ /\ o = "fail"
           /\ faults' = faults - 1
           /\ pc' = "conn_failed_log"
           /\ UNCHANGED <<opened, transport>>
    /\ h' = Rec("connect", 0)
    /\ UNCHANGED <<req, idx, sl, closed, stop, qvars, avars, runsLeft, stopsLeft>>

\* run(), lines 104-105: `int(cfg["delay"]) if cfg["use_delay"] else 0` and
\* the same for test_n raise ValueError when a field that is switched on
\* holds no numeral.
LocalsRaise(c) ==
    \/ c.use_delay /\ IntRaises(c.delay)
    \/ c.use_test /\ IntRaises(c.test_n)

\* The value of `int(text) if switch else 0`.
IntIf(switch, text) == IF switch THEN IntOf(text) ELSE 0

\* run(), lines 96-97 and 103-110: sftp.normalize("."), whose exception is a
\* failed connect; then the "Connected" log, the locals, and the entry of
\* the file loop.  The locals are bound outside every try: a ValueError
\* ends the thread there, with no close and no 'done'.
Normalize ==
    /\ pc = "normalize"
    /\ \E o \in Outcomes :
        \/ /\ o = "ok"
           /\ log_q' = Append(log_q, LogEv("connected", 0))
           /\ h' = Rec("log", 0)
           /\ IF LocalsRaise(cfg)
              THEN /\ pc' = "died"
                   /\ UNCHANGED <<idx, delay, test_count>>
              ELSE /\ delay' = IntIf(cfg.use_delay, cfg.delay)
                   /\ test_count' = IntIf(cfg.use_test, cfg.test_n)
                   /\ pc' = "loop_top"
                   /\ idx' = 1
           /\ UNCHANGED faults
        \/ /\ o = "fail"
           /\ faults' = faults - 1
           /\ pc' = "conn_failed_log"
           /\ UNCHANGED <<log_q, idx, h, delay, test_count>>
    /\ UNCHANGED <<cfg, total, start_delay, sl, transport, opened, closed, stop,
                   confirm_q, reply_q, avars, runsLeft, stopsLeft>>

\* run(), lines 98-99: the "Connection failed" log.
ConnectFailedLog ==
    /\ pc = "conn_failed_log"
    /\ log_q' = Append(log_q, LogEv("connection_failed", 0))
    /\ pc' = "conn_failed_done"
    /\ h' = [Rec("log", 0) EXCEPT !.connFailLogs = @ + 1]
    /\ UNCHANGED <<req, idx, sl, transport, opened, closed, stop, confirm_q, reply_q,
                   avars, bvars>>

\* A failed connect that is tried again instead of ending the run.
ConnectFailedRetry ==
    /\ pc = "conn_failed_done"
    /\ pc' = "connect"
    /\ UNCHANGED <<req, idx, sl, transport, opened, closed, stop, qvars, avars,
                   bvars, h>>

\* run(), lines 100-101: put ("done", False) and return.
ConnectFailedDone ==
    /\ pc = "conn_failed_done"
    /\ log_q' = Append(log_q, DoneEv(FALSE))
    /\ pc' = "finished"
    /\ h' = [Rec("done", 0) EXCEPT !.doneVal = FALSE]
    /\ UNCHANGED <<req, idx, sl, transport, opened, closed, stop, confirm_q, reply_q,
                   avars, bvars>>


\* ---------------------------------------------------------- run: file loop
\* run(), lines 110-111: the loop is over, or the flag is set, or the next
\* file is looked at.
LoopOutcome(i, n, stopped) ==
    IF i > n THEN "over"
    ELSE IF stopped THEN "break"
    ELSE "file"

\* run(), lines 110-113: the head of the file loop; with the flag set, log
\* "Stopped by user" and break.
LoopTop ==
    /\ pc = "loop_top"
    /\ LET o == LoopOutcome(idx, total, stop)
       IN  \/ /\ o = "over"
              /\ pc' = "teardown"
              /\ UNCHANGED <<log_q, h>>
           \/ /\ o = "break"
              /\ log_q' = Append(log_q, LogEv("stopped_by_user", idx))
              /\ pc' = "teardown"
              /\ h' = [Rec("log", idx) EXCEPT !.broke = "stop"]
           \/ /\ o = "file"
              /\ pc' = "exists"
              /\ h' = [h EXCEPT !.cur = {}]
              /\ UNCHANGED log_q
    /\ UNCHANGED <<req, idx, sl, transport, opened, closed, stop, confirm_q, reply_q,
                   avars, bvars>>

\* A missing file that is uploaded all the same.
AfterSkipUploads == "alive"

\* run(), lines 118-119 and 139: after the skip log control reaches the
\* checkpoint test.
AfterSkip == "checkpoint"

\* run(), lines 115-120: os.path.exists(fpath); a missing file is skipped.
FileCheck ==
    /\ pc = "exists"
    /\ \E o \in Outcomes :
        \/ /\ o = "ok"
           /\ pc' = "alive"
           /\ UNCHANGED <<log_q, faults, h>>
        \/ /\ o = "fail"
           /\ faults' = faults - 1
           /\ log_q' = Append(log_q, LogEv("skip", idx))
           /\ pc' = AfterSkip
           /\ h' = Rec("skip", idx)
    /\ UNCHANGED <<req, idx, sl, transport, opened, closed, stop, confirm_q, reply_q,
                   avars, runsLeft, stopsLeft>>

\* A session check that logs the loss and uploads on the dead handle.
AliveCheckNoReconnect ==
    /\ pc = "alive"
    /\ \E o \in Outcomes :
        \/ /\ o = "ok"
           /\ h' = Rec("alive", idx)
           /\ UNCHANGED <<log_q, faults>>
        \/ /\ o = "fail"
           /\ faults' = faults - 1
           /\ log_q' = Append(log_q, LogEv("connection_lost", idx))
           /\ h' = [Mark(Rec("alive", idx), "lost") EXCEPT !.lost = @ + 1]
    /\ pc' = "upload"
    /\ UNCHANGED <<req, idx, sl, transport, opened, closed, stop, confirm_q, reply_q,
                   avars, runsLeft, stopsLeft>>

\* run(), lines 122-123: transport.is_active(); a dead session is logged.
AliveCheck ==
    /\ pc = "alive"
    /\ \E o \in Outcomes :
        \/ /\ o = "ok"
           /\ pc' = "upload"
           /\ UNCHANGED <<log_q, faults>>
        \/ /\ o = "fail"
           /\ faults' = faults - 1
           /\ log_q' = Append(log_q, LogEv("connection_lost", idx))
           /\ pc' = "reconnect"
    /\ h' = IF pc' = "reconnect"
            THEN [Mark(Rec("alive", idx), "lost") EXCEPT !.lost = @ + 1]
            ELSE Rec("alive", idx)
    /\ UNCHANGED <<req, idx, sl, transport, opened, closed, stop, confirm_q, reply_q,
                   avars, runsLeft, stopsLeft>>

\* The outcomes of the _connect() that follows a session found inactive: the
\* failure that dropped the session is counted already, and the reconnect may
\* fail with it.
ReconnectOutcomes == {"ok", "fail"}

\* run(), line 125 (and 157 after a long delay): _connect() again.  The new
\* handle replaces the old one in (transport, sftp).  `ok` and `failed` are
\* where run() is after a success and after an exception.
ReconnectStep(ok, failed) ==
    /\ \E o \in ReconnectOutcomes :
        \/ /\ o = "ok"
           /\ opened' = opened + 1
           /\ transport' = opened + 1
           /\ pc' = ok
        \/ /\ o = "fail"
           /\ pc' = failed
           /\ UNCHANGED <<opened, transport>>
    /\ h' = LET before == ok = "reconnected"
                r == IF before THEN Rec("connect", idx)
                     ELSE MarkLong(Rec("connect", idx), "long_connect")
            IN  IF pc' = failed
                THEN [r EXCEPT !.broke = IF before THEN "reconnect"
                                         ELSE "long_reconnect",
                               !.reconnFail = @ + (IF before THEN 1 ELSE 0),
                               !.upAtFail = r.uploads]
                ELSE [r EXCEPT !.reconnOk = @ + (IF before THEN 1 ELSE 0)]
    /\ UNCHANGED <<req, idx, sl, closed, stop, qvars, avars, bvars>>

\* run(), lines 126 and 128-129 (158 and 160-161): the log of the reconnect;
\* after a failure the loop is left.  `next` is where run() goes on after a
\* success.
ReconnectLogStep(ok, next) ==
    /\ log_q' = Append(log_q, LogEv(IF pc = ok THEN "reconnected"
                                    ELSE "reconnect_failed", idx))
    /\ pc' = IF pc = ok THEN next ELSE "teardown"
    /\ h' = Rec("log", idx)
    /\ UNCHANGED <<req, sl, transport, opened, closed, stop, confirm_q, reply_q,
                   avars, bvars>>

\* A failed reconnect after which the upload is attempted all the same.
ReconnectFailureIgnored ==
    /\ pc = "reconnect"
    /\ \E o \in ReconnectOutcomes :
        \/ /\ o = "ok"
           /\ opened' = opened + 1
           /\ transport' = opened + 1
           /\ pc' = "reconnected"
           /\ h' = [Rec("connect", idx) EXCEPT !.reconnOk = @ + 1]
        \/ /\ o = "fail"
           /\ pc' = "upload"
           /\ h' = [Rec("connect", idx) EXCEPT !.reconnFail = @ + 1,
                                               !.upAtFail = h.uploads]
           /\ UNCHANGED <<opened, transport>>
    /\ UNCHANGED <<req, idx, sl, closed, stop, qvars, avars, bvars>>

Reconnect ==
    /\ pc = "reconnect"
    /\ ReconnectStep("reconnected", "reconnect_failed")

ReconnectLog ==
    /\ pc \in {"reconnected", "reconnect_failed"}
    /\ ReconnectLogStep("reconnected", "upload")
    /\ UNCHANGED idx

\* An upload whose exception ends the batch.
AfterUploadFatal(o) == IF o = "ok" THEN "checkpoint" ELSE "teardown"

\* run(), lines 132-138: after sftp.put, raised or not, control reaches the
\* checkpoint test.
AfterUpload(o) == "checkpoint"

\* run(), line 131: the "Uploading" log.
UploadLog ==
    /\ pc = "upload"
    /\ log_q' = Append(log_q, LogEv("uploading", idx))
    /\ pc' = "put"
    /\ h' = Rec("log", idx)
    /\ UNCHANGED <<req, idx, sl, transport, opened, closed, stop, confirm_q, reply_q,
                   avars, bvars>>

\* run(), line 133: sftp.put returns or raises.
Upload ==
    /\ pc = "put"
    /\ \E o \in Outcomes :
        \/ /\ o = "ok"
           /\ pc' = "put_ok"
           /\ h' = Rec("upload", idx)
           /\ UNCHANGED faults
        \/ /\ o = "fail"
           /\ faults' = faults - 1
           /\ pc' = "put_err"
           /\ h' = [Mark(Rec("upload", idx), "error") EXCEPT !.errors = @ + 1]
    /\ UNCHANGED <<req, idx, sl, transport, opened, closed, stop, qvars, avars,
                   runsLeft, stopsLeft>>

\* run(), lines 134-136: the log of the result; after an exception the loop
\* goes on as after a success.
UploadResult ==
    /\ pc \in {"put_ok", "put_err"}
    /\ LET o == IF pc = "put_ok" THEN "ok" ELSE "fail"
       IN  /\ log_q' = Append(log_q, LogEv(IF o = "ok" THEN "ok" ELSE "error", idx))
           /\ pc' = AfterUpload(o)
    /\ h' = Rec("log", idx)
    /\ UNCHANGED <<req, idx, sl, transport, opened, closed, stop, confirm_q, reply_q,
                   avars, bvars>>

\* A checkpoint test written with >= instead of ==.
CheckpointFromN(tc, i) == tc # 0 /\ i >= tc

\* A checkpoint test that takes test_n without looking at use_test (test_n
\* is "1" when the field is empty).
CheckpointSwitchIgnored(tc, i) == i = (IF tc = 0 THEN 1 ELSE tc)

\* run(), line 139: if test_count and idx == test_count
CheckpointDue(tc, i) == tc # 0 /\ i = tc

\* run(), lines 139-140: at the checkpoint, the "Test batch done" log.
Checkpoint ==
    /\ pc = "checkpoint"
    /\ IF CheckpointDue(test_count, idx)
       THEN /\ log_q' = Append(log_q, LogEv("test_batch_done", idx))
            /\ pc' = "ask"
            /\ h' = Mark(Rec("log", idx), "chk")
       ELSE /\ pc' = "delay_chk"
            /\ h' = Mark(h, "chk")
            /\ UNCHANGED log_q
    /\ UNCHANGED <<req, idx, sl, transport, opened, closed, stop, confirm_q,
                   reply_q, avars, bvars>>

\* run(), line 141: self.confirm_q.put("confirm").
ConfirmPut ==
    /\ pc = "ask"
    /\ confirm_q' = Append(confirm_q, "confirm")
    /\ pc' = "await"
    /\ h' = Rec("confirm", idx)
    /\ UNCHANGED <<req, idx, sl, transport, opened, closed, stop, log_q, reply_q,
                   avars, bvars>>

\* A get that does not block.
ReplyNeverBlocks(q) == TRUE

\* run(), line 142: reply_q.get() blocks until the queue holds a value.
ReplyReady(q) == q # <<>>

\* A worker that goes on whatever the answer.
AfterReplyIgnored(answer) == "delay_chk"

\* run(), lines 143-146: where the answer leads.
AfterReply(answer) == IF answer THEN "delay_chk" ELSE "teardown"

\* run(), line 142: reply_q.get() returns the answer.  ReplyReady makes the
\* queue hold a value here; the history records a decision only when one was
\* received.
TakeReply ==
    /\ pc = "await"
    /\ ReplyReady(reply_q)
    /\ LET answer == IF reply_q # <<>> THEN Head(reply_q) ELSE TRUE
       IN  /\ pc' = IF answer THEN "reply_yes" ELSE "reply_no"
           /\ h' = [h EXCEPT !.decision = IF reply_q = <<>> THEN @
                                          ELSE IF answer THEN "yes" ELSE "no",
                             !.reply1 = IF @ = <<>> THEN @ ELSE Tail(@),
                             !.broke = IF answer THEN @ ELSE "decision"]
    /\ reply_q' = IF reply_q # <<>> THEN Tail(reply_q) ELSE reply_q
    /\ UNCHANGED <<req, idx, sl, transport, opened, closed, stop, log_q, confirm_q,
                   avars, bvars>>

\* run(), lines 143-146: False: log and break; True: log and go on.
ReplyLog ==
    /\ pc \in {"reply_yes", "reply_no"}
    /\ log_q' = Append(log_q, LogEv(IF pc = "reply_yes" THEN "continuing"
                                    ELSE "stopped_after_test", idx))
    /\ pc' = AfterReply(pc = "reply_yes")
    /\ h' = Rec("log", idx)
    /\ UNCHANGED <<req, idx, sl, transport, opened, closed, stop, confirm_q, reply_q,
                   avars, bvars>>

\* A delay test that does not look at how many files remain.
DelayDueAfterLast(d, i, n, stopped) == d # 0 /\ ~stopped

\* run(), line 149: if delay and idx < total and not self._stop.is_set()
DelayDue(d, i, n, stopped) == d # 0 /\ i < n /\ ~stopped

\* An enumeration that leaves out every other file.
NextFileSkipsOne ==
    /\ idx' = idx + 2
    /\ pc' = "loop_top"

\* The end of one pass of `for idx, fpath in enumerate(files, 1)`.
NextFile ==
    /\ idx' = idx + 1
    /\ pc' = "loop_top"

\* run(), lines 149-150: enter the inter-file countdown, or go to the next
\* file.
DelayCheck ==
    /\ pc = "delay_chk"
    /\ IF DelayDue(delay, idx, total, stop)
       THEN /\ sl' = [seconds |-> delay, elapsed |-> 0, prefix |-> "next",
                      total |-> idx + 1, caller |-> "delay"]
            /\ pc' = "sleep_chk"
            /\ h' = [SleepEntered(Mark(h, "dly")) EXCEPT !.dlyStopped = @ \/ stop]
            /\ UNCHANGED idx
       ELSE /\ NextFile
            /\ h' = Mark(Rec("advance", idx), "dly")
            /\ UNCHANGED sl
    /\ UNCHANGED <<req, transport, opened, closed, stop, qvars, avars, bvars>>

\* run(), line 154: if delay >= RECONNECT_THRESH (and not is_active())
LongDelay(d) == d >= RECONNECT_THRESH

\* run(), lines 152-154: the countdown ran out: clear it; after a long delay
\* look at the session.
DelayClear ==
    /\ pc = "delay_clear"
    /\ log_q' = Append(log_q, TimerEv(NoText))
    /\ IF LongDelay(delay)
       THEN /\ pc' = "long_alive"
            /\ h' = Rec("clear", idx)
            /\ UNCHANGED idx
       ELSE /\ NextFile
            /\ h' = Rec2(Rec("clear", idx), "advance", idx)
    /\ UNCHANGED <<req, sl, transport, opened, closed, stop, confirm_q, reply_q,
                   avars, bvars>>

\* run(), lines 154-155: transport.is_active() after a long delay.
LongAliveCheck ==
    /\ pc = "long_alive"
    /\ \E o \in Outcomes :
        \/ /\ o = "ok"
           /\ NextFile
           /\ h' = MarkLong(Rec2(Rec("alive", idx), "advance", idx), "long_alive")
           /\ UNCHANGED <<log_q, faults>>
        \/ /\ o = "fail"
           /\ faults' = faults - 1
           /\ log_q' = Append(log_q, LogEv("reconnecting_long", idx))
           /\ pc' = "long_reconnect"
           /\ h' = MarkLong(Rec("alive", idx), "long_alive")
           /\ UNCHANGED idx
    /\ UNCHANGED <<req, sl, transport, opened, closed, stop, confirm_q, reply_q,
                   avars, runsLeft, stopsLeft>>

\* run(), line 157: reconnect after a long delay.
LongReconnect ==
    /\ pc = "long_reconnect"
    /\ ReconnectStep("long_reconnected", "long_reconnect_failed")

\* run(), lines 158 and 160-161: its log, then the next file or the break.
LongReconnectLog ==
    /\ pc \in {"long_reconnected", "long_reconnect_failed"}
    /\ ReconnectLogStep("long_reconnected", "loop_top")
    /\ idx' = IF pc' = "loop_top" THEN idx + 1 ELSE idx

\* ----------------------------------------------------------- run: teardown
\* run(), lines 163-167: close the sftp client and the transport that
\* (transport, sftp) name now; exceptions are swallowed.
Teardown ==
    /\ pc = "teardown"
    /\ closed' = IF transport # 0 THEN closed \cup {transport} ELSE closed
    /\ pc' = "done_put"
    /\ h' = Rec("close", idx)
    /\ UNCHANGED <<req, idx, sl, transport, opened, stop, qvars, avars, bvars>>

\* run(), line 168: put ("done", True).
DonePut ==
    /\ pc = "done_put"
    /\ log_q' = Append(log_q, DoneEv(TRUE))
    /\ pc' = "finished"
    /\ h' = [Rec("done", idx) EXCEPT !.doneVal = TRUE]
    /\ UNCHANGED <<req, idx, sl, transport, opened, closed, stop, confirm_q, reply_q,
                   avars, bvars>>

\* ------------------------------------------------------------ specification
\* The steps of run() in a run without any countdown.
BatchWorker ==
    \/ RunBegin
    \/ ConnectLog \/ Connect \/ Normalize \/ ConnectFailedLog \/ ConnectFailedDone
    \/ LoopTop \/ FileCheck \/ AliveCheck \/ Reconnect \/ ReconnectLog
    \/ UploadLog \/ Upload \/ UploadResult
    \/ Checkpoint \/ ConfirmPut \/ TakeReply \/ ReplyLog \/ DelayCheck
    \/ Teardown \/ DonePut

\* The steps of run() and _sleep() in a run that starts at once and waits
\* less than RECONNECT_THRESH seconds between files.
DelayWorker ==
    \/ BatchWorker
    \/ SleepCheck \/ SleepTick \/ SleepWait \/ DelayClear

WorkerNext ==
    \/ DelayWorker
    \/ StartCancelLog \/ StartCancelDone \/ StartClear
    \/ LongAliveCheck \/ LongReconnect \/ LongReconnectLog

\* _stop, _poll and the dialog.
ObserverNext ==
    \/ StopSet \/ StopReply
    \/ PollDrain \/ PollConfirm \/ AskContinue

AppNext == AppStart \/ ObserverNext

Next == WorkerNext \/ AppNext

Spec == Init /\ [][Next]_vars

\* ------------------------------------------------------ batches without waits
\* The application started on a request without a start delay and without a
\* delay between files: _sleep is never called.
BatchStart == StartRun(BatchRequests, MaxFaults)

BatchNext == BatchWorker \/ BatchStart \/ ObserverNext

BatchSpec == Init /\ [][BatchNext]_vars

\* -------------------------------------------------- batches with short waits
\* The application started on a request with a short delay between files.
DelayStart == StartRun(DelayedRequests, MaxFaults)

DelayNext == DelayWorker \/ DelayStart \/ ObserverNext

DelaySpec == Init /\ [][DelayNext]_vars

\* --------------------------------------------- a worker given its request
\* UploadWorker(cfg, files, ...) constructed with a request without
\* countdowns, the empty file list included (run() itself does not require
\* files), and its thread started; the observer is as App._start leaves it.
RunInit ==
    /\ \E r \in RunRequests :
        /\ cfg = CfgOf(r)
        /\ total = r.n
        /\ start_delay = StartDelaySeconds(r.start_delay_min)
        /\ delay = 0 /\ test_count = 0
    /\ pc = "run" /\ idx = 0 /\ stop = FALSE
    /\ sl = [seconds |-> 0, elapsed |-> 0, prefix |-> "", total |-> 0, caller |-> ""]
    /\ transport = 0 /\ opened = 0 /\ closed = {}
    /\ log_q = <<>> /\ confirm_q = <<>> /\ reply_q = <<>>
    /\ gui = "ready" /\ worker = TRUE
    /\ start_btn = FALSE /\ stop_btn = TRUE
    /\ timer_lbl = NoText
    /\ runsLeft = 0 /\ stopsLeft = MaxRunStops /\ faults = MaxRunFaults
    /\ h = NoHistory

RunNext == BatchWorker \/ ObserverNext

RunSpec == RunInit /\ [][RunNext]_vars

\* ------------------------------------------------- runs one after another
\* The application started MaxRuns times; Start is enabled again when 'done'
\* was polled (line 700).
MultiInit ==
    /\ cfg = NoCfg /\ total = 0
    /\ start_delay = 0 /\ delay = 0 /\ test_count = 0
    /\ pc = "none" /\ idx = 0 /\ stop = FALSE
    /\ sl = [seconds |-> 0, elapsed |-> 0, prefix |-> "", total |-> 0, caller |-> ""]
    /\ transport = 0 /\ opened = 0 /\ closed = {}
    /\ log_q = <<>> /\ confirm_q = <<>> /\ reply_q = <<>>
    /\ gui = "ready" /\ worker = FALSE
    /\ start_btn = TRUE /\ stop_btn = FALSE
    /\ timer_lbl = NoText
    /\ runsLeft = MaxRuns /\ stopsLeft = 0 /\ faults = 0
    /\ h = NoHistory

MultiStart == StartRun(ShortRequests, MaxRunFaults)

MultiNext == BatchWorker \/ MultiStart \/ ObserverNext

MultiSpec == MultiInit /\ [][MultiNext]_vars

\* ------------------------------------------------------ a run under fairness
\* UploadWorker constructed on a request with a delay between files, with or
\* without a checkpoint after the first file, or on one with a field that is
\* no numeral, and its thread started; the observer is as App._start leaves
\* it.
LiveRequests == DelayedRequests \cup MalformedRequests

LiveInit ==
    /\ \E r \in LiveRequests :
        /\ cfg = CfgOf(r)
        /\ total = r.n
        /\ start_delay = StartDelaySeconds(r.start_delay_min)
        /\ delay = 0 /\ test_count = 0
    /\ pc = "run" /\ idx = 0 /\ stop = FALSE
    /\ sl = [seconds |-> 0, elapsed |-> 0, prefix |-> "", total |-> 0, caller |-> ""]
    /\ transport = 0 /\ opened = 0 /\ closed = {}
    /\ log_q = <<>> /\ confirm_q = <<>> /\ reply_q = <<>>
    /\ gui = "ready" /\ worker = TRUE
    /\ start_btn = FALSE /\ stop_btn = TRUE
    /\ timer_lbl = NoText
    /\ runsLeft = 0 /\ stopsLeft = MaxStops /\ faults = MaxRunFaults
    /\ h = NoHistory

LiveNext == DelayWorker \/ ObserverNext

\* The worker's thread runs while it has a step to take: every call of the
\* library returns and time.sleep(1) ends.  Tk runs _poll again after 150 ms
\* (line 715), _stop runs to its end once called, and the user answers the
\* dialog.  Whether Stop is clicked is left open.
LiveFairness ==
    /\ WF_vars(DelayWorker)
    /\ WF_vars(PollDrain) /\ WF_vars(PollConfirm)
    /\ WF_vars(StopReply) /\ WF_vars(AskContinue)

LiveSpec == LiveInit /\ [][LiveNext]_vars /\ LiveFairness


\* =============================================================== properties
OpenHandles == (1..opened) \ closed

TeardownPcs == {"teardown", "done_put", "finished"}

\* The breaks of the file loop that lie after the checkpoint of the pass they
\* end: the False answer (line 145), the cancelled countdown between files
\* (line 151), the failed reconnect after a long delay (line 161).  The breaks
\* of lines 113 and 129 lie before it.
LateBreaks == {"decision", "sleep", "long_reconnect"}

\* run() has passed the checkpoint of file test_count: it is in a later pass,
\* or in that pass beyond confirm_q.put (line 141), or it left the loop in
\* that pass by a break that follows the checkpoint.
PastCheckpoint ==
    /\ pc \notin {"none", "run"}
    /\ \/ idx > test_count
       \/ /\ idx = test_count
          /\ pc \in {"await", "reply_yes", "reply_no", "delay_chk", "sleep_chk",
                     "sleep_tick", "sleep_wait", "delay_clear", "long_alive",
                     "long_reconnect", "long_reconnected", "long_reconnect_failed"}
       \/ /\ idx = test_count
          /\ pc \in TeardownPcs
          /\ h.broke \in LateBreaks

\* After a False from reply_q.get(): the log of line 144, the break, the
\* teardown.
RefusedPcs == {"reply_no"} \cup TeardownPcs

\* ----------------------------------------------------------------------- C1
\* C1: a run puts exactly one RunFinished on the event queue, on every path,
\* and it is the last event the worker puts: none while run() is under way,
\* one once run() is over, whether it returned or was ended by an exception,
\* and no log or timer after it.
C1_ExactlyOneRunFinished ==
    /\ h.dones = (IF pc \in {"finished", "died"} THEN 1 ELSE 0)
    /\ h.late = 0

\* ----------------------------------------------------------------------- C2
\* C2: if Stop is requested within the D seconds of the pre-start wait, the
\* last second included, the run makes no connect attempt and finishes with
\* RunFinished(false).
C2_CancelInStartWait ==
    h.stopAt = "wait" =>
        /\ h.connects = 0
        /\ (h.dones > 0 => ~h.doneVal)

\* ----------------------------------------------------------------------- C3
\* C3: when RunFinished is emitted, every session handle the run opened has
\* been closed.
C3_ClosedAtRunFinished ==
    h.dones > 0 => OpenHandles = {}

\* ----------------------------------------------------------------------- C4
\* C4: at most one session handle is opened and not yet closed at any time.
C4_AtMostOneOpen ==
    Cardinality(OpenHandles) <= 1

\* ----------------------------------------------------------------------- C5
\* C5: RunFinished carries false exactly when the run ended in the pre-start
\* wait or before a session was established (no handle was ever opened).
C5_FalseIffNoSession ==
    h.dones > 0 => (~h.doneVal <=> opened = 0)

\* ----------------------------------------------------------------------- C6
\* C6 as claimed: a finished run of a batch with 1 <= test_count <= total has
\* put exactly one ConfirmationRequested, right after the upload attempt of
\* file test_count.
C6_ExactlyOneConfirmation ==
    (pc = "finished" /\ test_count >= 1 /\ test_count <= total) =>
        /\ h.confirms = 1
        /\ h.askAfter = <<"upload", test_count>>

\* C6 as amended: a run puts at most one ConfirmationRequested, and only with
\* 1 <= test_count <= total; it has put it whenever it is past the checkpoint
\* of file test_count; and the worker's act just before it is the upload
\* attempt of file test_count, or the skip of that file when it does not
\* exist: no other upload, no countdown tick lies between.
C6_ConfirmationAtCheckpoint ==
    /\ h.confirms <= 1
    /\ h.confirms = 1 =>
          /\ test_count >= 1 /\ test_count <= total /\ idx >= test_count
          /\ h.askAfter \in {<<"upload", test_count>>, <<"skip", test_count>>}
    /\ (test_count >= 1 /\ test_count <= total /\ PastCheckpoint) =>
          h.confirms = 1

\* Reached: the request was put after the upload of file 2 of 5, the answer was
\* False, and the run is over, past the checkpoint, with idx still 2.
C6_Witness ==
    /\ total = 5 /\ test_count = 2 /\ h.confirms = 1
    /\ h.askAfter = <<"upload", 2>> /\ pc = "finished"
    /\ idx = 2 /\ h.broke = "decision" /\ PastCheckpoint

\* ----------------------------------------------------------------------- C7
\* C7 as claimed: after a false decision nothing is uploaded or counted down
\* and the run tears down and finishes with true; after a true decision the
\* loop goes on at the inter-file delay of the same file; and with 5 files,
\* checkpoint at 2 and a false decision there are exactly 2 upload attempts
\* and 1 ConfirmationRequested.
C7_DecisionAndScenarioB ==
    /\ h.decision = "no" =>
          /\ h.sinceNo = 0
          /\ pc \in RefusedPcs
          /\ (h.dones > 0 => h.doneVal)
    /\ (h.decision = "yes" /\ h.last = <<"confirm", test_count>>) =>
          /\ idx = test_count
          /\ pc \in {"reply_yes", "delay_chk", "sleep_chk", "sleep_tick",
                     "teardown", "done_put", "finished"}
    /\ (h.decision = "no" /\ total = 5 /\ test_count = 2) =>
          (h.uploads = 2 /\ h.confirms = 1)

\* C7 as amended: the same, with the count of the scenario stated for the
\* files that exist: the 2 files before the checkpoint are each attempted
\* or, when missing, skipped.
C7_DecisionStopsOrResumes ==
    /\ h.decision = "no" =>
          /\ h.sinceNo = 0
          /\ pc \in RefusedPcs
          /\ (h.dones > 0 => h.doneVal)
    /\ (h.decision = "yes" /\ h.last = <<"confirm", test_count>>) =>
          /\ idx = test_count
          /\ pc \in {"reply_yes", "delay_chk", "sleep_chk", "sleep_tick",
                     "teardown", "done_put", "finished"}
    /\ (h.decision = "no" /\ total = 5 /\ test_count = 2) =>
          /\ h.uploads + h.skips = 2
          /\ h.confirms = 1
          /\ (h.skips = 0 => h.uploads = 2)

\* Reached: scenario B has finished.
C7_Witness ==
    /\ total = 5 /\ test_count = 2 /\ h.decision = "no"
    /\ h.uploads = 2 /\ h.confirms = 1 /\ pc = "finished" /\ h.doneVal

\* ----------------------------------------------------------------------- C8
\* C8: from confirm_q.put until reply_q.get returns a value the worker stays
\* at the get: it puts no log and no tick, checks no session, connects and
\* uploads nothing and does not advance the file index.
C8_BlockedUntilReply ==
    (h.confirms > 0 /\ h.decision = "none") =>
        /\ pc = "await"
        /\ h.sinceAsk = 0
        /\ idx = test_count
        /\ h.last = <<"confirm", test_count>>

\* Reached: the worker waits with the reply queue empty and the dialog open.
C8_Witness ==
    /\ pc = "await" /\ reply_q = <<>> /\ gui = "dialog" /\ h.confirms = 1

\* ----------------------------------------------------------------------- C9
\* C9: when _stop has run before any dialog answer was given, a worker that
\* waits for the decision finds False at the head of reply_q, the decision it
\* takes is False whether or not the dialog is ever answered, and the run
\* then tears down and finishes.
C9_StopUnblocksCheckpoint ==
    h.synth =>
        /\ (pc = "await" => (reply_q # <<>> /\ Head(reply_q) = FALSE))
        /\ h.decision # "yes"
        /\ (h.decision = "no" => pc \in RefusedPcs)

\* Reached: a worker that was waiting when Stop was clicked took the False
\* with no dialog answer given, and the run finished.
C9_Witness ==
    /\ h.synth /\ h.stopAt = "loop" /\ h.decision = "no" /\ h.answers = 0
    /\ pc = "finished"

\* ---------------------------------------------------------------------- C10
\* C10: in a run that has entered the file loop, the worker starts at most
\* one upload and puts at most one countdown tick between the setting of the
\* flag and RunFinished, wherever the flag was set.
C10_StopHonoredWithinOneStep ==
    (stop /\ idx >= 1) => (h.upStop <= 1 /\ h.tickStop <= 1)

\* Reached: a run stopped in the file loop has finished after one more tick.
C10_Witness ==
    /\ h.stopAt = "loop" /\ pc = "finished" /\ h.tickStop = 1 /\ h.dones = 1

\* ---------------------------------------------------------------------- C11
\* C11: a second _stop changes nothing the worker reads.  The flag is set
\* from the first call on and is never reset during the run; and until the
\* one reply_q.get() of the run has returned, reply_q holds a value exactly
\* when it would after one call, with the same value at its head.  (run()
\* reads nothing else of what _stop writes, so its events and its
\* RunFinished are the same.)
C11_SecondStopChangesNothing ==
    /\ stop = (h.stopCalls >= 1)
    /\ Len(h.reply1) <= Len(reply_q)
    /\ h.decision = "none" =>
          /\ (reply_q = <<>>) = (h.reply1 = <<>>)
          /\ (reply_q # <<>> => Head(reply_q) = Head(h.reply1))

\* Reached: _stop ran twice while the worker waited at the checkpoint; the
\* worker took the first False and finished, the second is never read.
C11_Witness ==
    /\ h.stopCalls = 2 /\ h.decision = "no" /\ h.answers = 0
    /\ reply_q = <<FALSE>> /\ h.reply1 = <<>> /\ pc = "finished"

C13_InitialConnectFailureFatal ==
    (pc \in {"conn_failed_log", "conn_failed_done"} \/ h.connFailLogs > 0) =>
        /\ h.connects = 1 /\ h.uploads = 0 /\ h.skips = 0 /\ ~h.fileEv
        /\ idx = 0
        /\ pc \in {"conn_failed_log", "conn_failed_done", "finished"}
        /\ h.connFailLogs = (IF pc = "conn_failed_log" THEN 0 ELSE 1)
        /\ pc = "finished" => (h.dones = 1 /\ ~h.doneVal)

\* Reached: the first _connect() raised, and the run has logged the failure
\* and returned.
C13_Witness ==
    /\ pc = "finished" /\ h.connFailLogs = 1 /\ opened = 0
    /\ h.connects = 1 /\ ~h.doneVal /\ total = 5

\* ---------------------------------------------------------------------- C14
\* C14: each time the session is found inactive before a file's upload,
\* _connect is called once.  After a failure the loop is left for the
\* teardown and no upload is attempted any more.  After a success the
\* worker's next act is the upload of that same file over the new handle (so
\* the "Reconnected" log precedes the file's "Uploading" log), and a run that
\* is not stopped and meets no other failure handles every file (with 5
\* existing files and the session inactive before file 3: 5 upload attempts).
C14_OneReconnectPerDrop ==
    /\ h.reconnOk + h.reconnFail + (IF pc = "reconnect" THEN 1 ELSE 0) = h.lost
    /\ h.reconnFail > 0 =>
          /\ pc \in {"reconnect_failed"} \cup TeardownPcs /\ h.broke = "reconnect"
          /\ h.uploads = h.upAtFail /\ h.reconnFail = 1
    /\ (pc \in {"upload", "put"} /\ "lost" \in h.cur) =>
          /\ h.last = <<"connect", idx>> /\ transport = opened
    /\ ("lost" \in h.cur /\ "upload" \in h.cur) =>
          /\ "connect" \in h.cur /\ h.reconnFail = 0
    /\ (pc = "finished" /\ h.reconnOk > 0 /\ h.broke = "none") =>
          /\ h.uploads + h.skips = total
          /\ (total = 5 /\ h.skips = 0) => h.uploads = 5

\* Reached: with 5 files the session was found inactive before file 3, the
\* reconnect succeeded and file 3 was uploaded after files 1 and 2.
C14_Witness ==
    /\ total = 5 /\ idx = 3 /\ pc = "checkpoint"
    /\ {"lost", "connect", "upload"} \subseteq h.cur
    /\ h.uploads = 3 /\ h.reconnOk = 1

\* ---------------------------------------------------------------------- C15
\* The step in which sftp.put raises counts one attempt and one error and
\* puts nothing; the worker's next step puts the error log of the file, and
\* nothing else, and reaches the checkpoint test.  The handle, the flag and
\* the index stay in both.
UploadErrorStep ==
    /\ h'.errors > h.errors =>
          /\ h'.errors = h.errors + 1 /\ h'.uploads = h.uploads + 1
          /\ pc = "put" /\ pc' = "put_err"
          /\ qvars' = qvars
          /\ transport' = transport /\ opened' = opened /\ closed' = closed
          /\ stop' = stop /\ idx' = idx
    /\ (pc = "put_err" /\ pc' # pc) =>
          /\ log_q' = Append(log_q, LogEv("error", idx))
          /\ pc' = "checkpoint"
          /\ h'.errors = h.errors /\ h'.uploads = h.uploads
          /\ transport' = transport /\ opened' = opened /\ closed' = closed
          /\ stop' = stop /\ idx' = idx

\* After an upload error the pass of the loop goes on as after a success: the
\* loop is left only by one of its breaks or at its end.
UploadErrorGoesOn ==
    /\ "error" \in h.cur =>
          /\ "upload" \in h.cur
          /\ pc \in TeardownPcs => (h.broke # "none" \/ idx > total)
          /\ (pc \notin TeardownPcs /\ pc # "loop_top") =>
                "chk" \in h.cur \/ pc \in {"put_err", "checkpoint"}
    /\ (h.errors > 0 /\ pc = "finished" /\ h.broke = "none") =>
          (h.uploads + h.skips = total /\ h.doneVal)

\* C15: an exception of sftp.put for file i puts one error log for file i,
\* leaves the session handle and the stop flag as they are, and the loop
\* goes on with the checkpoint test, the inter-file delay and file i + 1.
C15_UploadErrorNonFatal == []UploadErrorGoesOn /\ [][UploadErrorStep]_vars

\* Reached: a run of 5 files in which one upload raised has attempted all 5
\* and finished with true.
C15_Witness ==
    /\ pc = "finished" /\ total = 5 /\ h.errors = 1 /\ h.uploads = 5
    /\ h.broke = "none" /\ h.doneVal /\ "error" \notin h.cur

\* ---------------------------------------------------------------------- C16
\* Between the file's own work and the end of the pass.
PassOpenPcs ==
    {"checkpoint", "ask", "await", "reply_yes", "reply_no", "delay_chk",
     "sleep_chk", "sleep_tick", "sleep_wait", "delay_clear", "long_alive",
     "long_reconnect", "long_reconnected", "long_reconnect_failed"}

\* The step that finds the file missing: one skip log, nothing else.
SkipStep ==
    h'.skips > h.skips =>
        /\ h'.skips = h.skips + 1
        /\ log_q' = Append(log_q, LogEv("skip", idx))
        /\ h'.uploads = h.uploads /\ h'.connects = h.connects
        /\ transport' = transport /\ opened' = opened /\ idx' = idx
        /\ pc = "exists" /\ pc' = "checkpoint"

\* The loop index moves one file at a time.
IndexStep == (idx' # idx /\ pc # "none" /\ pc' # "run") => idx' = idx + 1

\* A pass that skipped its file checks no session, reconnects and uploads
\* nothing for it, counts the file once, and still evaluates the checkpoint
\* and the inter-file delay before the index advances.
SkippedPass ==
    "skip" \in h.cur =>
        /\ h.cur \cap {"alive", "lost", "connect", "upload", "error"} = {}
        /\ (pc \in PassOpenPcs /\ sl.caller # "start") =>
              /\ h.uploads + h.skips = idx
              /\ "chk" \in h.cur \/ pc = "checkpoint"
              /\ (pc \in {"checkpoint", "ask", "await", "reply_yes", "reply_no",
                          "delay_chk"}) \/ "dly" \in h.cur
              /\ pc \notin {"checkpoint", "ask"} =>
                    ("confirm" \in h.cur <=> CheckpointDue(test_count, idx))
        /\ pc = "loop_top" =>
              /\ {"chk", "dly"} \subseteq h.cur
              /\ "confirm" \in h.cur <=> CheckpointDue(test_count, idx - 1)
              /\ h.uploads + h.skips = idx - 1

\* C16: a file that does not exist when its turn comes gets exactly one skip
\* log, no session check, no reconnect and no upload attempt; the checkpoint
\* and the inter-file delay of its index are still evaluated, and the index
\* then advances by exactly one.
C16_MissingFileSkipped == []SkippedPass /\ [][SkipStep /\ IndexStep]_vars

\* Reached: file 1 was missing and skipped, the checkpoint after it was
\* answered with yes, the inter-file countdown ran, and the loop is at file 2.
C16_Witness ==
    /\ {"skip", "confirm", "tick", "chk", "dly"} \subseteq h.cur
    /\ pc = "loop_top" /\ idx = 2 /\ h.skips = 1 /\ h.uploads = 0

\* ---------------------------------------------------------------------- C17
\* C17: upload attempts are made in strictly increasing file-list position,
\* so each position is attempted at most once; and a run that entered the
\* file loop and left it by no break (no stop seen, no failed reconnect, no
\* false decision) has attempted every file that exists exactly once, and
\* skipped the others, when it puts RunFinished(true): 5 files that exist
\* and upload without error give 5 attempts, the last one of file 5.
C17_InOrderEachOnce ==
    /\ h.ordered
    /\ h.uploads <= h.lastUp /\ h.lastUp <= idx /\ h.lastUp <= total
    /\ (pc \in {"done_put", "finished"} /\ idx >= 1 /\ h.broke = "none") =>
          /\ idx = total + 1
          /\ h.uploads + h.skips = total
          /\ pc = "finished" => h.doneVal
          /\ (total = 5 /\ h.skips = 0) => (h.uploads = 5 /\ h.lastUp = 5)

\* Reached: 5 files, no delay, no checkpoint, every upload succeeded, and the
\* run has finished with true.
C17_Witness ==
    /\ pc = "finished" /\ total = 5 /\ test_count = 0 /\ delay = 0
    /\ h.uploads = 5 /\ h.errors = 0 /\ h.skips = 0 /\ h.lastUp = 5
    /\ h.doneVal /\ ~stop /\ h.connects = 1

\* ---------------------------------------------------------------------- C18
SleepPcs == {"sleep_chk", "sleep_tick", "sleep_wait"}

\* C18: the k-th tick of a call _sleep(D) carries the remaining time
\* D - (k - 1), one tick per second begun; a call that returned True has put
\* exactly D ticks (D, D - 1, ..., 1); the call returns False exactly when
\* one of its per-second checks finds the flag set, the ticks it has put by
\* then are those of the seconds that passed before that check, and it puts
\* none afterwards.
C18_CountdownTicks ==
    /\ h.slOk
    /\ pc \in SleepPcs =>
          /\ h.slRet = "none" /\ ~h.slSaw
          /\ h.slTicks = sl.elapsed + (IF pc = "sleep_wait" THEN 1 ELSE 0)
          /\ h.slTicks <= sl.seconds
    /\ h.slRet = "true" => (h.slTicks = sl.seconds /\ ~h.slSaw)
    /\ h.slRet = "false" =>
          /\ h.slSaw /\ stop
          /\ h.slTicks = sl.elapsed /\ sl.elapsed < sl.seconds
          /\ pc \notin SleepPcs
    /\ h.slSaw => h.slRet = "false"

\* Reached: a countdown of MaxDelay seconds ran out and returned True after
\* as many ticks; the flag, set during its last second, was not seen.
C18_Witness ==
    /\ h.slRet = "true" /\ sl.seconds = MaxDelay /\ sl.elapsed = MaxDelay
    /\ h.slTicks = MaxDelay /\ stop /\ pc = "delay_clear"

\* ---------------------------------------------------------------------- C19
\* C19: after a countdown wait has ended, by running out or by cancellation,
\* the worker puts the empty timer event after the wait's last tick: when the
\* wait has run out the last timer event put is the empty one, and the last
\* timer event of a run that has returned is never a countdown.
C19_ClearedAfterEveryWait ==
    /\ (h.slRet = "true" /\ pc \notin SleepPcs) => h.lastTimer = "clear"
    /\ pc = "finished" => h.lastTimer # "tick"

\* ---------------------------------------------------------------------- C20
\* The countdown texts of inter-file waits that log_q holds.
NextTexts ==
    { log_q[k][2] : k \in { j \in 1..Len(log_q) :
                               /\ log_q[j][1] = "timer"
                               /\ log_q[j][2] # NoText
                               /\ log_q[j][2][1] = "next" } }

\* C20: an inter-file countdown is entered only with a delay > 0, after a
\* file i < total and with the flag not set at the test; it lasts `delay`
\* seconds and is labeled i + 1, which is at most total, so that none follows
\* the last file; and every tick it puts carries that label.
C20_InterFileCountdown ==
    /\ sl.caller = "delay" =>
          /\ delay > 0 /\ sl.seconds = delay /\ sl.prefix = "next"
          /\ sl.total >= 2 /\ sl.total <= total
          /\ ~h.dlyStopped
          /\ pc \in SleepPcs \cup {"delay_clear", "long_alive", "long_reconnect",
                                     "long_reconnected", "long_reconnect_failed"} =>
                (sl.total = idx + 1 /\ idx < total)
    /\ \A t \in NextTexts :
          /\ sl.caller = "delay" /\ delay > 0
          /\ t[4] >= 2 /\ t[4] <= total /\ t[4] <= sl.total
          /\ pc \in SleepPcs => t[4] \in {idx, idx + 1}
    /\ (delay = 0 \/ total <= 1) => (sl.caller # "delay" /\ "tick" \notin h.cur)

\* Reached: with 2 files and a delay, one countdown ran between file 1 and
\* file 2 and none after file 2, and the run has finished.
C20_Witness ==
    /\ pc = "finished" /\ total = 2 /\ delay = MaxDelay /\ sl.caller = "delay"
    /\ sl.total = 2 /\ h.ticks = MaxDelay /\ h.uploads = 2 /\ h.broke = "none"

\* ---------------------------------------------------------------------- C21
\* C21: with the checkpoint off (test_count = 0) or set beyond the last file
\* (test_count > total) the run never puts a ConfirmationRequested, the
\* worker never waits at reply_q.get(), and no dialog is opened.
C21_NoCheckpointNoConfirmation ==
    (test_count = 0 \/ test_count > total) =>
        /\ h.confirms = 0 /\ confirm_q = <<>>
        /\ pc # "await" /\ h.decision = "none"
        /\ gui # "dialog" /\ h.answers = 0

\* Reached: a run of one file with the checkpoint set after two files, and
\* Stop clicked on the way, has finished after its upload.
C21_Witness ==
    /\ test_count = 2 /\ total = 1 /\ pc = "finished" /\ h.uploads = 1
    /\ h.doneVal /\ reply_q = <<FALSE>>

\* ---------------------------------------------------------------------- C22
\* C22: when _poll opens the dialog for a ConfirmationRequested, it has taken
\* from log_q every log the worker put before the request; the last of them
\* is the "Test batch done" log, so that log is not in log_q any more.
C22_LogsShownBeforeDialog ==
    gui = "dialog" =>
        \A k \in 1..Len(log_q) : log_q[k] # LogEv("test_batch_done", test_count)

\* ---------------------------------------------------------------------- C24
\* The step of _poll that takes a ConfirmationRequested and opens the dialog
\* is taken before the run has put its RunFinished.
DialogOpensBeforeFinish == (gui # "dialog" /\ gui' = "dialog") => h.dones = 0

\* C24: _poll never takes a ConfirmationRequested from confirm_q, and opens
\* the dialog, after the worker has put RunFinished for that run.
C24_NoDialogAfterFinish == [][DialogOpensBeforeFinish]_vars

\* ---------------------------------------------------------------------- C25
\* C25: once _poll has handled the done of a run (Start is enabled again and
\* the run has returned), the countdown label is empty, however the timer
\* events and the done were batched.
C25_LabelEmptyAfterDone ==
    (pc = "finished" /\ start_btn) => timer_lbl = NoText

\* ---------------------------------------------------------------------- C26
\* C26: the worker is about to call sftp.put (before or after the
\* "Uploading" log of the file) only inside the file loop, after
\* the connect step succeeded, with (transport, sftp) naming the handle
\* opened last, which it has not closed (nothing is closed before the
\* teardown); its act just before is the session check of this file that
\* found the session active, or the reconnect of this file that succeeded,
\* never a check that found the session inactive.
C26_UploadOnLiveHandle ==
    /\ pc \in {"upload", "put"} =>
          /\ idx >= 1 /\ idx <= total
          /\ h.connects >= 1 /\ h.connFailLogs = 0
          /\ transport # 0 /\ transport = opened /\ transport \in OpenHandles
          /\ h.last \in {<<"alive", idx>>, <<"connect", idx>>}
          /\ "lost" \in h.cur <=> h.last = <<"connect", idx>>
          /\ h.reconnFail = 0
    /\ "upload" \in h.cur => "alive" \in h.cur
    /\ h.uploads > 0 => (opened >= 1 /\ h.connFailLogs = 0)
    /\ closed # {} => pc \in {"done_put", "finished"}

\* Reached: the session was found inactive before file 2, the reconnect
\* succeeded, and the worker is about to upload file 2 on the new handle.
C26_Witness ==
    /\ pc = "put" /\ idx = 2 /\ h.last = <<"connect", 2>>
    /\ transport = 2 /\ closed = {} /\ h.uploads = 1

\* ---------------------------------------------------------------------- C23
\* C23: whatever the runs before left behind, in a run the cancellation flag
\* is set exactly when Stop was clicked in this run; the replies queued or
\* taken are exactly the Falses of this run's Stops and the answers of this
\* run's dialogs, so a decision the worker received was produced in this run;
\* the confirmation requests queued, shown or answered are those this run's
\* worker put; before the worker's first act the event and confirmation
\* queues are empty; and Start is enabled only when no worker is running.
C23_NoStateAcrossRuns ==
    /\ stop = (h.stopCalls >= 1)
    /\ Len(reply_q) + (IF h.decision = "none" THEN 0 ELSE 1)
           = h.answers + h.stopCalls - (IF gui = "stopping" THEN 1 ELSE 0)
    /\ Len(confirm_q) + h.answers + (IF gui = "dialog" THEN 1 ELSE 0) = h.confirms
    /\ h.decision = "yes" => h.answers >= 1
    /\ h.decision # "none" => h.confirms = 1
    /\ pc = "run" => (log_q = <<>> /\ confirm_q = <<>> /\ h.answers = 0)
    /\ start_btn => pc \in {"none", "finished"}

\* Reached: the run before was stopped and never took the False of its Stop;
\* the worker of this run waits at its checkpoint, flag unset, with nothing
\* to read.
C23_Witness ==
    /\ h.stale >= 2 /\ runsLeft < MaxRuns
    /\ pc = "await" /\ reply_q = <<>> /\ ~stop /\ h.confirms = 1

\* ---------------------------------------------------------------------- C27
\* C27: a started run puts its RunFinished: wherever run() is, at a
\* checkpoint waiting for the decision or in a countdown included, it
\* eventually has put 'done' and returned.
C27_RunFinishes == (pc # "finished") ~> (pc = "finished" /\ h.dones = 1)

====
